---- MODULE Spec2Model ----
(***************************************************************************)
(* Risk-quantification engine of the MSP risk-to-proposal tool:            *)
(* lib/risk/config.ts, lib/risk/breachData.ts, lib/risk/calculator.ts,     *)
(* and the request rate limiter lib/middleware/rateLimit.ts with the       *)
(* route handlers that consult it.                                         *)
(*                                                                         *)
(* Number encoding (JavaScript numbers are modelled by exact fixed-point   *)
(* integers):                                                              *)
(*   - a CVSS score is held in tenths            (9.8   -> 98)             *)
(*   - exposure factor and ARO are held in percent (0.75 -> 75)            *)
(*   - assetValue and singleLossExpectancy are held in dollars             *)
(*   - annualizedLossExpectancy, totalALE and the riskByCategory buckets   *)
(*     are held in cents, so that ALE = SLE * ARO is the plain product of  *)
(*     the dollar figure and the percent figure.                           *)
(* An optional JavaScript value is the empty sequence (undefined) or a     *)
(* one-element sequence holding the value.                                 *)
(***************************************************************************)
EXTENDS Integers, Sequences, FiniteSets, TLC

VARIABLES
    breachCostsData,    \* data/breachCosts.json: the "industries" array
    vulnerabilities,    \* argument of the call (optional list of Vulnerability)
    clientContext,      \* argument of the call
    pc,                 \* position inside the call
    idx,                \* position of the for-of loop of calculateTotalRisk
    individualRisks,    \* local of calculateTotalRisk
    errors,             \* local of calculateTotalRisk
    outcome,            \* what the call returned or threw
    rateLimitStore,     \* rateLimit.ts: identifier -> optional {count, resetTime}
    clock,              \* Date.now(), in milliseconds
    nextCleanup,        \* when the setInterval callback of rateLimit.ts is due
    response,           \* what the last route handler did with its request
    requestLog,         \* history: requests made and allowed, by client,
                        \* route and time
    sessionStore,       \* session/route.ts: session id -> {data, expiresAt}
    sessionLog,         \* history: session id -> what was last stored under
                        \* it and when it was last stored and read
    workload,           \* the requests clients send in this behaviour
    retry               \* claude.ts: the withRetry call in progress

riskVars == <<breachCostsData, vulnerabilities, clientContext, pc, idx,
              individualRisks, errors, outcome>>

limitVars == <<rateLimitStore, clock, nextCleanup, response, requestLog>>

serverVars == <<rateLimitStore, clock, nextCleanup, response, requestLog,
                sessionStore, sessionLog, workload, retry>>

vars == <<breachCostsData, vulnerabilities, clientContext, pc, idx,
          individualRisks, errors, outcome,
          rateLimitStore, clock, nextCleanup, response, requestLog,
          sessionStore, sessionLog, workload, retry>>

(***************************************************************************)
(* Bounds of the model.                                                    *)
(***************************************************************************)
MaxVulns == 2           \* longest vulnerability list given to calculateTotalRisk
MaxRanked == 6          \* longest list given to calculateTotalRisk for ranking
ScoreMargin == 3        \* calculateALE is given every score (tenths) from this
                        \* far below CVSS_THRESHOLDS.MIN to this far above MAX
MaxTicks == 3           \* the clock advances this many half-windows
MaxCalls == 4           \* requests served in one behaviour

None == <<>>
Some(x) == <<x>>
IsSome(o) == o # <<>>
Val(o) == o[1]

(***************************************************************************)
(* lib/risk/config.ts                                                      *)
(***************************************************************************)
EXPOSURE_FACTORS == [critical |-> 100, high |-> 75, medium |-> 40, low |-> 15]

ANNUAL_RATE_OCCURRENCE == [critical |-> 40, high |-> 25, medium |-> 10, low |-> 3]

CVSS_THRESHOLDS ==
    [CRITICAL |-> 90, HIGH |-> 70, MEDIUM |-> 40, LOW |-> 1, MAX |-> 100, MIN |-> 0]

RECORDS_PER_EMPLOYEE ==
    [healthcare |-> 2000, financial |-> 1500, retail |-> 1000,
     manufacturing |-> 500, professional_services |-> 800,
     education |-> 1200, government |-> 1000, technology |-> 900,
     other |-> 800]

CONFIDENCE_SCORING ==
    [HAS_CVE |-> 2, VALID_CVSS |-> 2, INDUSTRY_SPECIFIC |-> 1,
     HIGH_SEVERITY_WITH_ASSETS |-> 1, HIGH_THRESHOLD |-> 5,
     MEDIUM_THRESHOLD |-> 3]

\* getExposureFactor with the factors of the high and the medium band swapped
getExposureFactor_BandsSwapped(cvssScore) ==
    IF cvssScore >= CVSS_THRESHOLDS.CRITICAL THEN EXPOSURE_FACTORS.critical
    ELSE IF cvssScore >= CVSS_THRESHOLDS.HIGH THEN EXPOSURE_FACTORS.medium
    ELSE IF cvssScore >= CVSS_THRESHOLDS.MEDIUM THEN EXPOSURE_FACTORS.high
    ELSE EXPOSURE_FACTORS.low

getExposureFactor(cvssScore) ==
    IF cvssScore >= CVSS_THRESHOLDS.CRITICAL THEN EXPOSURE_FACTORS.critical
    ELSE IF cvssScore >= CVSS_THRESHOLDS.HIGH THEN EXPOSURE_FACTORS.high
    ELSE IF cvssScore >= CVSS_THRESHOLDS.MEDIUM THEN EXPOSURE_FACTORS.medium
    ELSE EXPOSURE_FACTORS.low

\* getARO with the critical boundary excluded from the critical band
getARO_StrictCritical(cvssScore) ==
    IF cvssScore > CVSS_THRESHOLDS.CRITICAL THEN ANNUAL_RATE_OCCURRENCE.critical
    ELSE IF cvssScore >= CVSS_THRESHOLDS.HIGH THEN ANNUAL_RATE_OCCURRENCE.high
    ELSE IF cvssScore >= CVSS_THRESHOLDS.MEDIUM THEN ANNUAL_RATE_OCCURRENCE.medium
    ELSE ANNUAL_RATE_OCCURRENCE.low

getARO(cvssScore) ==
    IF cvssScore >= CVSS_THRESHOLDS.CRITICAL THEN ANNUAL_RATE_OCCURRENCE.critical
    ELSE IF cvssScore >= CVSS_THRESHOLDS.HIGH THEN ANNUAL_RATE_OCCURRENCE.high
    ELSE IF cvssScore >= CVSS_THRESHOLDS.MEDIUM THEN ANNUAL_RATE_OCCURRENCE.medium
    ELSE ANNUAL_RATE_OCCURRENCE.low

\* A JavaScript value: a number, a function or object, or undefined
Number(n) == [type |-> "number", value |-> n]
Inherited(key) == [type |-> "object", inheritedFrom |-> "Object.prototype",
                   key |-> key]
Undefined == [type |-> "undefined"]

Truthy(v) == v.type = "object" \/ (v.type = "number" /\ v.value # 0)

\* the properties every object literal inherits from Object.prototype
ObjectPrototypeKeys ==
    {"constructor", "toString", "toLocaleString", "valueOf", "hasOwnProperty",
     "isPrototypeOf", "propertyIsEnumerable", "__proto__"}

\* RECORDS_PER_EMPLOYEE[industry]: own property, else the prototype's
RecordsProperty(industry) ==
    IF industry \in DOMAIN RECORDS_PER_EMPLOYEE
    THEN Number(RECORDS_PER_EMPLOYEE[industry])
    ELSE IF industry \in ObjectPrototypeKeys THEN Inherited(industry)
    ELSE Undefined

\* RECORDS_PER_EMPLOYEE[industry] || RECORDS_PER_EMPLOYEE.other
getRecordsMultiplier(industry) ==
    IF Truthy(RecordsProperty(industry))
    THEN RecordsProperty(industry)
    ELSE Number(RECORDS_PER_EMPLOYEE.other)

(***************************************************************************)
(* lib/risk/breachData.ts                                                  *)
(***************************************************************************)
RECURSIVE FindIndustry(_, _, _)
\* Array.prototype.find: first entry whose industry matches, or undefined
FindIndustry(data, industry, k) ==
    IF k > Len(data) THEN None
    ELSE IF data[k].industry = industry THEN Some(data[k])
    ELSE FindIndustry(data, industry, k + 1)

getIndustryBreachData(industry) == FindIndustry(breachCostsData, industry, 1)

DEFAULT_COST_PER_RECORD == 180

\* getCostPerRecord going straight to the hardcoded default
getCostPerRecord_NoOtherFallback(industry) ==
    LET data == getIndustryBreachData(industry)
    IN  IF IsSome(data) THEN Val(data).costPerRecord
        ELSE DEFAULT_COST_PER_RECORD

getCostPerRecord(industry) ==
    LET data == getIndustryBreachData(industry)
        fallback == getIndustryBreachData("other")
    IN  IF IsSome(data) THEN Val(data).costPerRecord
        ELSE IF IsSome(fallback) /\ Val(fallback).costPerRecord # 0
             THEN Val(fallback).costPerRecord
             ELSE DEFAULT_COST_PER_RECORD

NaN == "NaN"

\* employeeCount * multiplier: a number times a non-number is NaN
estimateRecordsAtRisk(employeeCount, industry) ==
    LET multiplier == getRecordsMultiplier(industry)
    IN  IF multiplier.type = "number" THEN employeeCount * multiplier.value
        ELSE NaN

(***************************************************************************)
(* lib/risk/calculator.ts                                                  *)
(***************************************************************************)
\* throw new RiskCalculationError(message, code, details)
RiskCalculationError(message, code, details) ==
    [kind |-> "error", name |-> "RiskCalculationError", message |-> message,
     code |-> code, details |-> details]

\* reading .length of an undefined affectedAssets
TypeError ==
    [kind |-> "error", name |-> "TypeError",
     message |-> "Cannot read properties of undefined (reading 'length')",
     code |-> "", details |-> None]

\* JavaScript truthiness of an optional number / an optional string
TruthyNumber(o) == IsSome(o) /\ Val(o) # 0
TruthyString(o) == IsSome(o) /\ Val(o) # ""

\* the confidence rule reads affectedAssets.length only for critical / high
ConfidenceThrows(vulnerability) ==
    /\ vulnerability.severity \in {"critical", "high"}
    /\ ~IsSome(vulnerability.affectedAssets)

\* determineConfidenceLevel with the industry weight left out
determineConfidenceLevel_NoIndustryWeight(vulnerability, ctx) ==
    LET s1 == IF TruthyString(vulnerability.cve)
              THEN CONFIDENCE_SCORING.HAS_CVE ELSE 0
        s2 == IF /\ IsSome(vulnerability.cvssScore)
                 /\ Val(vulnerability.cvssScore) >= CVSS_THRESHOLDS.MIN
                 /\ Val(vulnerability.cvssScore) <= CVSS_THRESHOLDS.MAX
              THEN CONFIDENCE_SCORING.VALID_CVSS ELSE 0
        s4 == IF /\ vulnerability.severity \in {"critical", "high"}
                 /\ IsSome(vulnerability.affectedAssets)
                 /\ Len(Val(vulnerability.affectedAssets)) > 0
              THEN CONFIDENCE_SCORING.HIGH_SEVERITY_WITH_ASSETS ELSE 0
        confidenceScore == s1 + s2 + s4
    IN  IF confidenceScore >= CONFIDENCE_SCORING.HIGH_THRESHOLD THEN "high"
        ELSE IF confidenceScore >= CONFIDENCE_SCORING.MEDIUM_THRESHOLD THEN "medium"
        ELSE "low"

determineConfidenceLevel(vulnerability, ctx) ==
    LET s1 == IF TruthyString(vulnerability.cve)
              THEN CONFIDENCE_SCORING.HAS_CVE ELSE 0
        s2 == IF /\ IsSome(vulnerability.cvssScore)
                 /\ Val(vulnerability.cvssScore) >= CVSS_THRESHOLDS.MIN
                 /\ Val(vulnerability.cvssScore) <= CVSS_THRESHOLDS.MAX
              THEN CONFIDENCE_SCORING.VALID_CVSS ELSE 0
        s3 == IF ctx.industry # "other"
              THEN CONFIDENCE_SCORING.INDUSTRY_SPECIFIC ELSE 0
        s4 == IF /\ vulnerability.severity \in {"critical", "high"}
                 /\ IsSome(vulnerability.affectedAssets)
                 /\ Len(Val(vulnerability.affectedAssets)) > 0
              THEN CONFIDENCE_SCORING.HIGH_SEVERITY_WITH_ASSETS ELSE 0
        confidenceScore == s1 + s2 + s3 + s4
    IN  IF confidenceScore >= CONFIDENCE_SCORING.HIGH_THRESHOLD THEN "high"
        ELSE IF confidenceScore >= CONFIDENCE_SCORING.MEDIUM_THRESHOLD THEN "medium"
        ELSE "low"

\* RiskCalculation with ALE taken from the asset value instead of the SLE
RiskCalculation_ALEFromAsset(vulnerability, ctx) ==
    LET assetValue ==
            estimateRecordsAtRisk(ctx.employeeCount, ctx.industry)
                * getCostPerRecord(ctx.industry)
        exposureFactor == getExposureFactor(Val(vulnerability.cvssScore))
        annualRateOccurrence == getARO(Val(vulnerability.cvssScore))
    IN  [kind |-> "risk",
         vulnerabilityId |-> vulnerability.id,
         vulnerabilityName |-> vulnerability.name,
         singleLossExpectancy |-> (assetValue \div 100) * exposureFactor,
         annualRateOccurrence |-> annualRateOccurrence,
         annualizedLossExpectancy |-> (assetValue \div 100) * annualRateOccurrence,
         confidenceLevel |-> determineConfidenceLevel(vulnerability, ctx),
         calculation |->
            [assetValue |-> assetValue,
             exposureFactor |-> exposureFactor,
             breachProbability |-> annualRateOccurrence,
             industryBreachCost |-> getCostPerRecord(ctx.industry)]]

\* RiskCalculation with the asset value left at the record count
RiskCalculation_AssetWithoutCost(vulnerability, ctx) ==
    LET industryBreachCost == getCostPerRecord(ctx.industry)
        assetValue == estimateRecordsAtRisk(ctx.employeeCount, ctx.industry)
        exposureFactor == getExposureFactor(Val(vulnerability.cvssScore))
        singleLossExpectancy == (assetValue \div 100) * exposureFactor
        annualRateOccurrence == getARO(Val(vulnerability.cvssScore))
    IN  [kind |-> "risk",
         vulnerabilityId |-> vulnerability.id,
         vulnerabilityName |-> vulnerability.name,
         singleLossExpectancy |-> singleLossExpectancy,
         annualRateOccurrence |-> annualRateOccurrence,
         annualizedLossExpectancy |-> singleLossExpectancy * annualRateOccurrence,
         confidenceLevel |-> determineConfidenceLevel(vulnerability, ctx),
         calculation |->
            [assetValue |-> assetValue,
             exposureFactor |-> exposureFactor,
             breachProbability |-> annualRateOccurrence,
             industryBreachCost |-> industryBreachCost]]

\* lines 103-143 of calculateALE: the Risk Calculation it builds
RiskCalculation(vulnerability, ctx) ==
    LET industryBreachCost == getCostPerRecord(ctx.industry)
        estimatedRecords ==
            estimateRecordsAtRisk(ctx.employeeCount, ctx.industry)
        exposureFactor == getExposureFactor(Val(vulnerability.cvssScore))
        assetValue == estimatedRecords * industryBreachCost
        \* dollars * percent / 100: exact, every records multiplier being
        \* a multiple of 100
        singleLossExpectancy == (assetValue \div 100) * exposureFactor
        annualRateOccurrence == getARO(Val(vulnerability.cvssScore))
        \* dollars * percent = cents
        annualizedLossExpectancy == singleLossExpectancy * annualRateOccurrence
    IN  [kind |-> "risk",
         vulnerabilityId |-> vulnerability.id,
         vulnerabilityName |-> vulnerability.name,
         singleLossExpectancy |-> singleLossExpectancy,
         annualRateOccurrence |-> annualRateOccurrence,
         annualizedLossExpectancy |-> annualizedLossExpectancy,
         confidenceLevel |-> determineConfidenceLevel(vulnerability, ctx),
         calculation |->
            [assetValue |-> assetValue,
             exposureFactor |-> exposureFactor,
             breachProbability |-> annualRateOccurrence,
             industryBreachCost |-> industryBreachCost]]

\* The value returned by calculateALE, or the error it throws.
calculateALE(vulnerability, ctx) ==
    IF ~TruthyNumber(vulnerability.cvssScore)
    THEN RiskCalculationError("CVSS score required for risk calculation",
                              "MISSING_CVSS",
                              [vulnerabilityId |-> vulnerability.id])
    ELSE IF \/ Val(vulnerability.cvssScore) < CVSS_THRESHOLDS.MIN
            \/ Val(vulnerability.cvssScore) > CVSS_THRESHOLDS.MAX
    THEN RiskCalculationError("CVSS score must be between 0 and 10",
                              "INVALID_CVSS",
                              [vulnerabilityId |-> vulnerability.id,
                               cvssScore |-> Val(vulnerability.cvssScore)])
    ELSE IF ConfidenceThrows(vulnerability) THEN TypeError
    ELSE RiskCalculation(vulnerability, ctx)

\* the entry pushed on errors by the catch block of calculateTotalRisk
CaughtError(vulnerability, thrown) ==
    [vulnerabilityId |-> vulnerability.id,
     error |-> IF thrown.name = "RiskCalculationError"
               THEN thrown.message
               ELSE "Unknown calculation error"]

RECURSIVE SumALE_AddsSLE(_)
\* the reduce adding up the wrong field of each Risk Calculation
SumALE_AddsSLE(risks) ==
    IF risks = <<>> THEN 0
    ELSE SumALE_AddsSLE(SubSeq(risks, 1, Len(risks) - 1))
         + risks[Len(risks)].singleLossExpectancy

RECURSIVE SumALE(_)
\* individualRisks.reduce((sum, risk) => sum + risk.annualizedLossExpectancy, 0)
SumALE(risks) ==
    IF risks = <<>> THEN 0
    ELSE SumALE(SubSeq(risks, 1, Len(risks) - 1))
         + risks[Len(risks)].annualizedLossExpectancy

RECURSIVE FindRisk(_, _, _)
\* individualRisks.find(r => r.vulnerabilityId === id)
FindRisk(risks, id, k) ==
    IF k > Len(risks) THEN None
    ELSE IF risks[k].vulnerabilityId = id THEN Some(risks[k])
    ELSE FindRisk(risks, id, k + 1)

RECURSIVE GroupBySeverity(_, _, _)
\* vulnerabilities.reduce((acc, vuln) => ..., {critical: 0, high: 0, medium: 0, low: 0})
GroupBySeverity(vulns, risks, n) ==
    IF n = 0 THEN [critical |-> 0, high |-> 0, medium |-> 0, low |-> 0]
    ELSE LET acc == GroupBySeverity(vulns, risks, n - 1)
             vuln == vulns[n]
             risk == FindRisk(risks, vuln.id, 1)
         IN  IF IsSome(risk)
             THEN [acc EXCEPT ![vuln.severity] =
                       @ + Val(risk).annualizedLossExpectancy]
             ELSE acc

RECURSIVE SortByALEDesc_TiesReversed(_)
\* a sort that puts a later element before the earlier ones of equal ALE
SortByALEDesc_TiesReversed(risks) ==
    IF risks = <<>> THEN <<>>
    ELSE LET sorted == SortByALEDesc_TiesReversed(SubSeq(risks, 1, Len(risks) - 1))
             r == risks[Len(risks)]
             pos == Cardinality({j \in 1..Len(sorted) :
                        sorted[j].annualizedLossExpectancy
                            > r.annualizedLossExpectancy})
         IN  SubSeq(sorted, 1, pos) \o <<r>> \o SubSeq(sorted, pos + 1, Len(sorted))

RECURSIVE SortByALEDesc(_)
\* [...risks].sort((a, b) => b.ALE - a.ALE): a stable sort, descending
SortByALEDesc(risks) ==
    IF risks = <<>> THEN <<>>
    ELSE LET sorted == SortByALEDesc(SubSeq(risks, 1, Len(risks) - 1))
             r == risks[Len(risks)]
             pos == Cardinality({j \in 1..Len(sorted) :
                        sorted[j].annualizedLossExpectancy
                            >= r.annualizedLossExpectancy})
         IN  SubSeq(sorted, 1, pos) \o <<r>> \o SubSeq(sorted, pos + 1, Len(sorted))

TOP_RISKS == 5

Slice(s, n) == SubSeq(s, 1, IF Len(s) < n THEN Len(s) ELSE n)

\* the first five in input order, the sort left out
TopRisks_Unsorted(risks) == Slice(risks, TOP_RISKS)

\* the ranking without the cut at five
TopRisks_NoSlice(risks) == SortByALEDesc(risks)

TopRisks(risks) == Slice(SortByALEDesc(risks), TOP_RISKS)

(***************************************************************************)
(* lib/utils/validation.ts                                                 *)
(***************************************************************************)
\* VulnerabilitySchema.parse succeeds (strings: id, name, description and
\* recommendation are non-empty in every modelled input)
VulnerabilitySchema(vulnerability) ==
    /\ IsSome(vulnerability.cvssScore)
    /\ Val(vulnerability.cvssScore) >= 0
    /\ Val(vulnerability.cvssScore) <= 100
    /\ vulnerability.severity \in {"critical", "high", "medium", "low"}
    /\ IsSome(vulnerability.affectedAssets)
    /\ Len(Val(vulnerability.affectedAssets)) >= 1

(***************************************************************************)
(* lib/utils/formatting.ts: generateClientId.  A string is a sequence of   *)
(* one-character strings.                                                  *)
(***************************************************************************)
LowerOf ==
    [A |-> "a", B |-> "b", C |-> "c", D |-> "d", E |-> "e", F |-> "f",
     G |-> "g", H |-> "h", I |-> "i", J |-> "j", K |-> "k", L |-> "l",
     M |-> "m", N |-> "n", O |-> "o", P |-> "p", Q |-> "q", R |-> "r",
     S |-> "s", T |-> "t", U |-> "u", V |-> "v", W |-> "w", X |-> "x",
     Y |-> "y", Z |-> "z"]

LowerAlnum ==
    {LowerOf[c] : c \in DOMAIN LowerOf}
        \cup {"0", "1", "2", "3", "4", "5", "6", "7", "8", "9"}

toLowerCase(c) == IF c \in DOMAIN LowerOf THEN LowerOf[c] ELSE c

CLIENT_ID_PREFIX_LEN == 20

\* companyName.toLowerCase().replace(/[^a-z0-9]/g, '-').substring(0, 20)
Sanitize(companyName) ==
    Slice([k \in 1..Len(companyName) |->
              IF toLowerCase(companyName[k]) \in LowerAlnum
              THEN toLowerCase(companyName[k]) ELSE "-"],
          CLIENT_ID_PREFIX_LEN)

\* `${sanitized}-${random}`, random being the base-36 digits of Math.random()
generateClientId(companyName, random) ==
    Sanitize(companyName) \o <<"-">> \o random

(***************************************************************************)
(* Inputs.                                                                 *)
(***************************************************************************)
VulnerabilitySeverity == {"critical", "high", "medium", "low"}

IndustryType ==
    {"healthcare", "financial", "retail", "manufacturing",
     "professional_services", "education", "government", "technology",
     "other"}

\* Two shipped forms of data/breachCosts.json: with and without the
\* 'other' entry.
BreachCostDatasets ==
    { << [industry |-> "healthcare", costPerRecord |-> 408],
         [industry |-> "financial", costPerRecord |-> 250],
         [industry |-> "other", costPerRecord |-> 150] >>,
      << [industry |-> "healthcare", costPerRecord |-> 408] >> }

CompanyName == <<"A", "c", "m", "e", " ", "C", "o", ".">>

\* Math.random().toString(36).substring(2, 7)
RandomSuffixes == { <<"k", "3", "x", "9", "a">>, <<"p", "0", "7", "q", "z">> }

\* new Date().toISOString()
Timestamps == {"2025-01-15T10:00:00.000Z"}

\* Client contexts accepted upstream (ClientContextSchema)
Contexts(industries, employeeCounts) ==
    [companyName : {CompanyName}, industry : industries,
     employeeCount : employeeCounts]

\* Vulnerabilities as they arrive from JSON: any field may be missing
Vulns(ids, scores, assets, cves) ==
    [id : ids, name : {"Exposed RDP service"}, cvssScore : scores,
     severity : VulnerabilitySeverity, affectedAssets : assets, cve : cves]

\* inputs of a single calculateALE call
AleVulnerabilities ==
    Vulns({"v1"},
          {None} \cup {Some(s) : s \in (CVSS_THRESHOLDS.MIN - ScoreMargin)
                                     ..(CVSS_THRESHOLDS.MAX + ScoreMargin)},
          {None, Some(<<>>), Some(<<"srv1">>)},
          {None, Some(""), Some("CVE-2019-0708")})

AleContexts == Contexts(IndustryType, {1, 50})

\* inputs of a calculateTotalRisk call: a missing score, a medium-band score,
\* a critical-band score and an out-of-range score
BatchScores == {None, Some(55), Some(95), Some(150)}

\* ... and a vulnerability that arrives without its affectedAssets
BatchVulnerabilities ==
    Vulns({"v1", "v2"}, BatchScores, {Some(<<"srv1">>)}, {Some("CVE-2019-0708")})
        \cup Vulns({"v1"}, {Some(95)}, {None}, {Some("CVE-2019-0708")})

\* retail has no entry of its own in either dataset
BatchContexts == Contexts({"retail"}, {2})

BatchLists == UNION {[1..n -> BatchVulnerabilities] : n \in 0..MaxVulns}

(***************************************************************************)
(* lib/middleware/rateLimit.ts                                             *)
(***************************************************************************)
RATE_LIMITS ==
    [PROPOSAL_GENERATION |-> [windowMs |-> 60 * 1000, maxRequests |-> 3],
     API_DEFAULT         |-> [windowMs |-> 60 * 1000, maxRequests |-> 30],
     SAMPLE_DATA         |-> [windowMs |-> 60 * 1000, maxRequests |-> 10]]

CLEANUP_INTERVAL == 10 * 60 * 1000

\* checkRateLimit with <= for <: one request more passes in a window
checkRateLimit_OffByOne(store, now, identifier, config) ==
    LET entry == store[identifier]
    IN  IF ~IsSome(entry) \/ now > Val(entry).resetTime
        THEN LET resetTime == now + config.windowMs
             IN  [store  |-> [store EXCEPT ![identifier] =
                                  Some([count |-> 1, resetTime |-> resetTime])],
                  result |-> [allowed |-> TRUE,
                              remaining |-> config.maxRequests - 1,
                              resetTime |-> resetTime]]
        ELSE IF Val(entry).count <= config.maxRequests
        THEN [store  |-> [store EXCEPT ![identifier] =
                              Some([Val(entry) EXCEPT !.count = @ + 1])],
              result |-> [allowed |-> TRUE,
                          remaining |-> config.maxRequests - (Val(entry).count + 1),
                          resetTime |-> Val(entry).resetTime]]
        ELSE [store  |-> store,
              result |-> [allowed |-> FALSE, remaining |-> 0,
                          resetTime |-> Val(entry).resetTime]]

\* checkRateLimit with windows that follow one another without a gap: the new
\* window starts where the expired one ended, not at the request
checkRateLimit_FixedWindows(store, now, identifier, config) ==
    LET entry == store[identifier]
    IN  IF ~IsSome(entry) \/ now > Val(entry).resetTime
        THEN LET resetTime == IF IsSome(entry)
                              THEN Val(entry).resetTime + config.windowMs
                              ELSE now + config.windowMs
             IN  [store  |-> [store EXCEPT ![identifier] =
                                  Some([count |-> 1, resetTime |-> resetTime])],
                  result |-> [allowed |-> TRUE,
                              remaining |-> config.maxRequests - 1,
                              resetTime |-> resetTime]]
        ELSE IF Val(entry).count < config.maxRequests
        THEN [store  |-> [store EXCEPT ![identifier] =
                              Some([Val(entry) EXCEPT !.count = @ + 1])],
              result |-> [allowed |-> TRUE,
                          remaining |-> config.maxRequests - (Val(entry).count + 1),
                          resetTime |-> Val(entry).resetTime]]
        ELSE [store  |-> store,
              result |-> [allowed |-> FALSE, remaining |-> 0,
                          resetTime |-> Val(entry).resetTime]]

\* checkRateLimit(identifier, config) at time now on the given store: the
\* store it leaves and the result it returns
checkRateLimit(store, now, identifier, config) ==
    LET entry == store[identifier]
    IN  IF ~IsSome(entry) \/ now > Val(entry).resetTime
        THEN LET resetTime == now + config.windowMs
             IN  [store  |-> [store EXCEPT ![identifier] =
                                  Some([count |-> 1, resetTime |-> resetTime])],
                  result |-> [allowed |-> TRUE,
                              remaining |-> config.maxRequests - 1,
                              resetTime |-> resetTime]]
        ELSE IF Val(entry).count < config.maxRequests
        THEN [store  |-> [store EXCEPT ![identifier] =
                              Some([Val(entry) EXCEPT !.count = @ + 1])],
              result |-> [allowed |-> TRUE,
                          remaining |-> config.maxRequests - (Val(entry).count + 1),
                          resetTime |-> Val(entry).resetTime]]
        ELSE [store  |-> store,
              result |-> [allowed |-> FALSE, remaining |-> 0,
                          resetTime |-> Val(entry).resetTime]]

\* what getClientIP can return: a forwarded address, or the fallback
ClientIPs == {"203.0.113.7", "unknown"}

\* the routes whose handlers consult the limiter
Routes == {"/api/generate-proposal", "/api/session"}

\* the clock is read at multiples of half a window
TickMs == RATE_LIMITS.PROPOSAL_GENERATION.windowMs \div 2
Times == {k * TickMs : k \in 0..MaxTicks}

NoResponse == [kind |-> "none"]
\* the log holds an entry for every (client, route, time) with a request
EmptyLog == <<>>
Logged(log, key) ==
    IF key \in DOMAIN log THEN log[key] ELSE [made |-> 0, allowed |-> 0]

\* no client sends anything
NoWorkload ==
    [clients |-> {}, maxCalls |-> 0, tickMs |-> TickMs, sessionPosts |-> {},
     randoms |-> {}, sessionIds |-> {}, proposals |-> {}, generations |-> {}]

\* no withRetry call is in progress
NoRetry == [state |-> "idle"]

\* no request has been served
LimiterIdle ==
    /\ rateLimitStore = [ip \in ClientIPs |-> None]
    /\ clock = 0
    /\ nextCleanup = CLEANUP_INTERVAL
    /\ response = NoResponse
    /\ requestLog = EmptyLog
    /\ sessionStore = <<>>
    /\ sessionLog = <<>>
    /\ workload = NoWorkload
    /\ retry = NoRetry

(***************************************************************************)
(* calculateTotalRisk as a state machine.                                  *)
(***************************************************************************)
NoOutcome == [kind |-> "none"]

Init ==
    /\ breachCostsData \in BreachCostDatasets
    /\ vulnerabilities \in {None} \cup {Some(l) : l \in BatchLists}
    /\ clientContext \in BatchContexts
    /\ pc = "start"
    /\ idx = 1
    /\ individualRisks = <<>>
    /\ errors = <<>>
    /\ outcome = NoOutcome
    /\ LimiterIdle

\* Enter without the length test: an empty list goes on to the loop
Enter_NoLengthTest ==
    /\ pc = "start"
    /\ IF ~IsSome(vulnerabilities)
       THEN /\ outcome' = RiskCalculationError(
                              "No vulnerabilities provided for risk calculation",
                              "NO_VULNERABILITIES", None)
            /\ pc' = "done"
       ELSE /\ pc' = "loop"
            /\ UNCHANGED outcome
    /\ UNCHANGED serverVars
    /\ UNCHANGED <<breachCostsData, vulnerabilities, clientContext, idx,
                   individualRisks, errors>>

\* if (!vulnerabilities || vulnerabilities.length === 0) throw ...
Enter ==
    /\ pc = "start"
    /\ IF ~IsSome(vulnerabilities) \/ Len(Val(vulnerabilities)) = 0
       THEN /\ outcome' = RiskCalculationError(
                              "No vulnerabilities provided for risk calculation",
                              "NO_VULNERABILITIES", None)
            /\ pc' = "done"
       ELSE /\ pc' = "loop"
            /\ UNCHANGED outcome
    /\ UNCHANGED serverVars
    /\ UNCHANGED <<breachCostsData, vulnerabilities, clientContext, idx,
                   individualRisks, errors>>

\* Iterate leaving the loop at the first failure
Iterate_BreakOnError ==
    /\ pc = "loop"
    /\ idx <= Len(Val(vulnerabilities))
    /\ LET vulnerability == Val(vulnerabilities)[idx]
           risk == calculateALE(vulnerability, clientContext)
       IN  IF risk.kind = "risk"
           THEN /\ individualRisks' = Append(individualRisks, risk)
                /\ idx' = idx + 1
                /\ UNCHANGED errors
           ELSE /\ errors' = Append(errors, CaughtError(vulnerability, risk))
                /\ idx' = Len(Val(vulnerabilities)) + 1
                /\ UNCHANGED individualRisks
    /\ UNCHANGED serverVars
    /\ UNCHANGED <<breachCostsData, vulnerabilities, clientContext, pc, outcome>>

\* one iteration of: for (const vulnerability of vulnerabilities) try/catch
Iterate ==
    /\ pc = "loop"
    /\ idx <= Len(Val(vulnerabilities))
    /\ LET vulnerability == Val(vulnerabilities)[idx]
           risk == calculateALE(vulnerability, clientContext)
       IN  IF risk.kind = "risk"
           THEN /\ individualRisks' = Append(individualRisks, risk)
                /\ UNCHANGED errors
           ELSE /\ errors' = Append(errors, CaughtError(vulnerability, risk))
                /\ UNCHANGED individualRisks
    /\ idx' = idx + 1
    /\ UNCHANGED serverVars
    /\ UNCHANGED <<breachCostsData, vulnerabilities, clientContext, pc, outcome>>

\* the profile with individualRisks itself sorted, not a copy of it
Profile_SortsInPlace(random, now) ==
    [kind |-> "profile",
     clientId |-> generateClientId(clientContext.companyName, random),
     calculationDate |-> now,
     individualRisks |-> SortByALEDesc(individualRisks),
     totalALE |-> SumALE(individualRisks),
     riskByCategory |->
         GroupBySeverity(Val(vulnerabilities), individualRisks,
                         Len(Val(vulnerabilities))),
     topRisks |-> TopRisks(individualRisks)]

\* lines 192-222 of calculateTotalRisk: the profile it returns
Profile(random, now) ==
    [kind |-> "profile",
     clientId |-> generateClientId(clientContext.companyName, random),
     calculationDate |-> now,
     individualRisks |-> individualRisks,
     totalALE |-> SumALE(individualRisks),
     riskByCategory |->
         GroupBySeverity(Val(vulnerabilities), individualRisks,
                         Len(Val(vulnerabilities))),
     topRisks |-> TopRisks(individualRisks)]

\* Aggregate throwing as soon as any item failed
Aggregate_ThrowOnAnyError ==
    /\ pc = "loop"
    /\ idx > Len(Val(vulnerabilities))
    /\ IF Len(errors) > 0
       THEN outcome' = RiskCalculationError(
                           "Failed to calculate risk for any vulnerabilities",
                           "ALL_CALCULATIONS_FAILED", [errors |-> errors])
       ELSE \E random \in RandomSuffixes, now \in Timestamps :
              outcome' = Profile(random, now)
    /\ pc' = "done"
    /\ UNCHANGED serverVars
    /\ UNCHANGED <<breachCostsData, vulnerabilities, clientContext, idx,
                   individualRisks, errors>>

\* what follows the loop: the all-failed throw, or the profile
Aggregate ==
    /\ pc = "loop"
    /\ idx > Len(Val(vulnerabilities))
    /\ IF Len(individualRisks) = 0
       THEN outcome' = RiskCalculationError(
                           "Failed to calculate risk for any vulnerabilities",
                           "ALL_CALCULATIONS_FAILED", [errors |-> errors])
       ELSE \E random \in RandomSuffixes, now \in Timestamps :
              outcome' = Profile(random, now)
    /\ pc' = "done"
    /\ UNCHANGED serverVars
    /\ UNCHANGED <<breachCostsData, vulnerabilities, clientContext, idx,
                   individualRisks, errors>>

Next == Enter \/ Iterate \/ Aggregate

Spec == Init /\ [][Next]_vars

(***************************************************************************)
(* A single calculateALE call.                                             *)
(***************************************************************************)
InitALE ==
    /\ breachCostsData \in BreachCostDatasets
    /\ vulnerabilities \in {Some(<<v>>) : v \in AleVulnerabilities}
    /\ clientContext \in AleContexts
    /\ pc = "ale"
    /\ idx = 1
    /\ individualRisks = <<>>
    /\ errors = <<>>
    /\ outcome = NoOutcome
    /\ LimiterIdle

CallCalculateALE ==
    /\ pc = "ale"
    /\ outcome' = calculateALE(Val(vulnerabilities)[1], clientContext)
    /\ pc' = "done"
    /\ UNCHANGED serverVars
    /\ UNCHANGED <<breachCostsData, vulnerabilities, clientContext, idx,
                   individualRisks, errors>>

NextALE == CallCalculateALE

SpecALE == InitALE /\ [][NextALE]_vars

(***************************************************************************)
(* Properties of a single calculateALE call (specification SpecALE).       *)
(***************************************************************************)
\* the vulnerability given to the call
Arg == Val(vulnerabilities)[1]

Returned == pc = "done" /\ outcome.kind = "risk"

Threw(code) ==
    /\ pc = "done"
    /\ outcome.kind = "error"
    /\ outcome.name = "RiskCalculationError"
    /\ outcome.code = code

\* C1: whenever calculateALE returns, the returned annualizedLossExpectancy is
\* the returned singleLossExpectancy times the returned annualRateOccurrence.
C1_ALEIsSLETimesARO ==
    Returned =>
        outcome.annualizedLossExpectancy
            = outcome.singleLossExpectancy * outcome.annualRateOccurrence

\* a high-band call returned a non-zero ALE
C1_Witness ==
    /\ Returned
    /\ Arg.cvssScore = Some(75)
    /\ outcome.annualRateOccurrence = 25
    /\ outcome.annualizedLossExpectancy > 0

\* C2: whenever calculateALE returns, SLE = (employeeCount * recordsPerEmployee)
\* * costPerRecord * exposureFactor(score), and the calculation record holds
\* the values used: assetValue = employeeCount * recordsPerEmployee *
\* costPerRecord, the exposure factor, breachProbability = ARO and
\* industryBreachCost = costPerRecord.
C2_SLEFormulaAndAuditRecord ==
    Returned =>
        LET emp == clientContext.employeeCount
            rec == getRecordsMultiplier(clientContext.industry).value
            cost == getCostPerRecord(clientContext.industry)
            ef == getExposureFactor(Val(Arg.cvssScore))
        IN  /\ rec % 100 = 0
            \* dollars: (emp * rec) * cost * (ef / 100)
            /\ outcome.singleLossExpectancy = (emp * (rec \div 100)) * cost * ef
            /\ outcome.calculation.assetValue = emp * rec * cost
            /\ outcome.calculation.exposureFactor = ef
            /\ outcome.calculation.breachProbability = outcome.annualRateOccurrence
            /\ outcome.calculation.industryBreachCost = cost

\* healthcare, 50 employees, medium band: assetValue 40,800,000 at 40%
C2_Witness ==
    /\ Returned
    /\ clientContext.industry = "healthcare"
    /\ clientContext.employeeCount = 50
    /\ Arg.cvssScore = Some(55)
    /\ outcome.calculation.assetValue = 40800000
    /\ outcome.singleLossExpectancy = 16320000

\* the band values of the claim, as <<exposure factor, ARO>> in percent
C3_Band(score) ==
    IF score >= 90 THEN <<100, 40>>
    ELSE IF score >= 70 THEN <<75, 25>>
    ELSE IF score >= 40 THEN <<40, 10>>
    ELSE <<15, 3>>

\* C3: for every score, getExposureFactor and getARO give the values of one
\* and the same band (>= 9.0 critical 1.00/0.40, >= 7.0 high 0.75/0.25,
\* >= 4.0 medium 0.40/0.10, else low 0.15/0.03), and a returned Risk
\* Calculation carries exactly these two values.
C3_SameBanding ==
    IsSome(Arg.cvssScore) =>
        /\ <<getExposureFactor(Val(Arg.cvssScore)), getARO(Val(Arg.cvssScore))>>
               = C3_Band(Val(Arg.cvssScore))
        /\ Returned =>
               <<outcome.calculation.exposureFactor, outcome.annualRateOccurrence>>
                   = C3_Band(Val(Arg.cvssScore))

\* the boundary score 9.0 was calculated with the critical values
C3_Witness ==
    /\ Returned
    /\ Arg.cvssScore = Some(90)
    /\ outcome.calculation.exposureFactor = 100
    /\ outcome.annualRateOccurrence = 40

\* C4: a vulnerability that VulnerabilitySchema accepts (score in [0.0, 10.0],
\* both endpoints included) always gets a Risk Calculation from calculateALE.
C4_SchemaValidScoreAccepted ==
    (pc = "done" /\ VulnerabilitySchema(Arg)) => outcome.kind = "risk"

\* C5: calculateALE throws MISSING_CVSS exactly when the score is absent and
\* INVALID_CVSS exactly when a score is present and outside [0.0, 10.0]; the
\* thrown error carries the vulnerability id and no Risk Calculation results.
C5_FailureModes ==
    pc = "done" =>
        /\ Threw("MISSING_CVSS") <=> ~IsSome(Arg.cvssScore)
        /\ Threw("INVALID_CVSS") <=>
               /\ IsSome(Arg.cvssScore)
               /\ Val(Arg.cvssScore) < 0 \/ Val(Arg.cvssScore) > 100
        /\ (Threw("MISSING_CVSS") \/ Threw("INVALID_CVSS")) =>
               outcome.details.vulnerabilityId = Arg.id

(***************************************************************************)
(* Properties of a calculateTotalRisk call (specification Spec).           *)
(***************************************************************************)
NoInput == ~IsSome(vulnerabilities) \/ Val(vulnerabilities) = <<>>

Input == Val(vulnerabilities)

\* what calculateALE gives for the i-th input vulnerability
Attempt(i) == calculateALE(Input[i], clientContext)

\* the Risk Calculations of the inputs that can be calculated, in input order
Successes ==
    SelectSeq([i \in 1..Len(Input) |-> Attempt(i)], LAMBDA r : r.kind = "risk")

ReturnedProfile == pc = "done" /\ outcome.kind = "profile"

RECURSIVE SuccessALEFrom(_, _)
\* sum of the ALE of the calculable inputs k.. whose declared severity is in sevs
SuccessALEFrom(k, sevs) ==
    IF k > Len(Input) THEN 0
    ELSE (IF Attempt(k).kind = "risk" /\ Input[k].severity \in sevs
          THEN Attempt(k).annualizedLossExpectancy ELSE 0)
         + SuccessALEFrom(k + 1, sevs)

\* C6: with an empty or absent list calculateTotalRisk throws NO_VULNERABILITIES
\* before attempting any calculation, and only then; a non-empty list never
\* gives that code, so it is told apart from ALL_CALCULATIONS_FAILED.
C6_NoVulnerabilities ==
    pc = "done" =>
        /\ NoInput =>
              /\ Threw("NO_VULNERABILITIES")
              /\ idx = 1 /\ individualRisks = <<>> /\ errors = <<>>
        /\ Threw("NO_VULNERABILITIES") => NoInput
        /\ Threw("ALL_CALCULATIONS_FAILED") => ~NoInput

\* the call on the empty list has thrown
C6_Witness ==
    /\ vulnerabilities = Some(<<>>)
    /\ Threw("NO_VULNERABILITIES")

\* C7: a failing item never aborts the batch: every input is attempted, and
\* when at least one input can be calculated the call returns a profile whose
\* individualRisks are exactly the calculable inputs, in input order.
C7_FailureDoesNotAbort ==
    /\ pc = "loop" => Len(individualRisks) + Len(errors) = idx - 1
    /\ (pc = "done" /\ ~NoInput) =>
          /\ Len(individualRisks) + Len(errors) = Len(Input)
          /\ Successes # <<>> =>
                /\ outcome.kind = "profile"
                /\ outcome.individualRisks = Successes

\* two inputs, the first with score 15.0: a profile with one entry, the second
C7_Witness ==
    /\ ReturnedProfile
    /\ Len(Input) = 2
    /\ Input[1].cvssScore = Some(150)
    /\ Len(outcome.individualRisks) = 1
    /\ outcome.individualRisks[1].vulnerabilityId = Input[2].id
    /\ Len(errors) = 1

\* C8: on a non-empty list ALL_CALCULATIONS_FAILED is thrown exactly when no
\* input can be calculated, and it carries one failure (id and reason) per
\* input, in input order.
C8_AllCalculationsFailed ==
    (pc = "done" /\ ~NoInput) =>
        /\ Threw("ALL_CALCULATIONS_FAILED") <=> Successes = <<>>
        /\ Threw("ALL_CALCULATIONS_FAILED") =>
              /\ Len(outcome.details.errors) = Len(Input)
              /\ \A i \in 1..Len(Input) :
                    /\ outcome.details.errors[i].vulnerabilityId = Input[i].id
                    /\ outcome.details.errors[i].error =
                           (IF Attempt(i).name = "RiskCalculationError"
                            THEN Attempt(i).message
                            ELSE "Unknown calculation error")

\* two inputs, both failing, with different ids
C8_Witness ==
    /\ Threw("ALL_CALCULATIONS_FAILED")
    /\ Len(Input) = 2
    /\ Input[1].id # Input[2].id
    /\ Input[1].cvssScore = Some(150)
    /\ Len(outcome.details.errors) = 2

RECURSIVE C9_Resum(_, _)
\* the ALE of risks[k..], summed again
C9_Resum(risks, k) ==
    IF k > Len(risks) THEN 0
    ELSE risks[k].annualizedLossExpectancy + C9_Resum(risks, k + 1)

\* C9: in a returned profile totalALE is the sum of the ALE of individualRisks,
\* which is the sum over the calculable inputs only: a failed input adds no
\* entry, not even a zero-valued one.
C9_TotalIsSumOfIndividual ==
    ReturnedProfile =>
        /\ outcome.totalALE = C9_Resum(outcome.individualRisks, 1)
        /\ outcome.totalALE = SuccessALEFrom(1, VulnerabilitySeverity)
        /\ Len(outcome.individualRisks) = Len(Input) - Len(errors)

\* a profile over two calculated inputs of different ALE
C9_Witness ==
    /\ ReturnedProfile
    /\ Len(outcome.individualRisks) = 2
    /\ outcome.individualRisks[1].annualizedLossExpectancy
           > outcome.individualRisks[2].annualizedLossExpectancy
    /\ outcome.individualRisks[2].annualizedLossExpectancy > 0

\* C10: in a returned profile each riskByCategory bucket is the sum of the ALE
\* of the calculable inputs whose declared severity is that key.
C10_BucketsByDeclaredSeverity ==
    ReturnedProfile =>
        \A sev \in VulnerabilitySeverity :
            outcome.riskByCategory[sev] = SuccessALEFrom(1, {sev})


(***************************************************************************)
(* calculateTotalRisk on lists long enough for the cut at five             *)
(* (specification SpecTop): the same call, the i-th vulnerability of the   *)
(* list having the id i and a low, high, critical or out-of-range score.   *)
(***************************************************************************)
RankedScores == {Some(35), Some(75), Some(95), Some(150)}

\* the list of vulnerabilities "1", "2", ... carrying the given scores
RankedList(scores) ==
    [i \in DOMAIN scores |->
        [id |-> ToString(i), name |-> "Exposed RDP service",
         cvssScore |-> scores[i], severity |-> "high",
         affectedAssets |-> Some(<<"srv1">>),
         cve |-> Some("CVE-2019-0708")]]

InitTop ==
    /\ breachCostsData \in BreachCostDatasets
    /\ \E n \in 1..MaxRanked :
           \E scores \in [1..n -> RankedScores] :
               vulnerabilities = Some(RankedList(scores))
    /\ clientContext \in BatchContexts
    /\ pc = "start"
    /\ idx = 1
    /\ individualRisks = <<>>
    /\ errors = <<>>
    /\ outcome = NoOutcome
    /\ LimiterIdle

SpecTop == InitTop /\ [][Next]_vars

Min(a, b) == IF a < b THEN a ELSE b

ALEOf(r) == r.annualizedLossExpectancy

\* position in individualRisks of the Risk Calculation r (ids are distinct)
InputPos(r) ==
    CHOOSE j \in 1..Len(outcome.individualRisks) :
        outcome.individualRisks[j].vulnerabilityId = r.vulnerabilityId

InTop(r) ==
    \E k \in 1..Len(outcome.topRisks) : outcome.topRisks[k] = r

\* C11: in a returned profile topRisks has min(5, |individualRisks|) entries,
\* each of them an entry of individualRisks (none twice), in non-increasing
\* ALE order, and no entry left out has a strictly higher ALE than one kept.
C11_TopRisksShape ==
    ReturnedProfile =>
        LET top == outcome.topRisks
            all == outcome.individualRisks
        IN  /\ Len(top) = Min(5, Len(all))
            /\ \A k \in 1..Len(top) : \E j \in 1..Len(all) : top[k] = all[j]
            /\ \A k, l \in 1..Len(top) : k # l => top[k] # top[l]
            /\ \A k \in 1..(Len(top) - 1) : ALEOf(top[k]) >= ALEOf(top[k + 1])
            /\ \A j \in 1..Len(all) : \A k \in 1..Len(top) :
                   ~InTop(all[j]) => ALEOf(all[j]) <= ALEOf(top[k])

\* six calculated inputs, the first of them the smallest: it is the one cut
C11_Witness ==
    /\ ReturnedProfile
    /\ Len(outcome.individualRisks) = 6
    /\ Len(outcome.topRisks) = 5
    /\ ~InTop(outcome.individualRisks[1])
    /\ ALEOf(outcome.topRisks[1]) > ALEOf(outcome.topRisks[5])
    /\ ALEOf(outcome.topRisks[5]) > ALEOf(outcome.individualRisks[1])

\* C12: Risk Calculations of equal ALE appear in topRisks in input order, and
\* when the cut at five falls inside a group of equal ALE the earlier inputs
\* are the ones kept.
C12_StableTies ==
    ReturnedProfile =>
        LET top == outcome.topRisks
            all == outcome.individualRisks
        IN  /\ \A k, l \in 1..Len(top) :
                   (k < l /\ ALEOf(top[k]) = ALEOf(top[l]))
                       => InputPos(top[k]) < InputPos(top[l])
            /\ \A j \in 1..Len(all) : \A k \in 1..Len(top) :
                   (~InTop(all[j]) /\ ALEOf(all[j]) = ALEOf(top[k]))
                       => InputPos(top[k]) < j

\* six calculated inputs of one and the same ALE: the sixth is the one cut
C12_Witness ==
    /\ ReturnedProfile
    /\ Len(outcome.individualRisks) = 6
    /\ \A j \in 1..6 :
           ALEOf(outcome.individualRisks[j]) = ALEOf(outcome.individualRisks[1])
    /\ ~InTop(outcome.individualRisks[6])
    /\ \A k \in 1..5 : outcome.topRisks[k] = outcome.individualRisks[k]


(***************************************************************************)
(* Further properties of a single calculateALE call (SpecALE).             *)
(***************************************************************************)
\* the confidence score of the claim: 2 for a CVE identifier (an empty string
\* is none), 2 for a score in [0, 10], 1 for an industry other than 'other',
\* 1 for critical / high with affected assets
C13_Score ==
    (IF IsSome(Arg.cve) /\ Val(Arg.cve) # "" THEN 2 ELSE 0)
    + (IF Val(Arg.cvssScore) >= 0 /\ Val(Arg.cvssScore) <= 100 THEN 2 ELSE 0)
    + (IF clientContext.industry # "other" THEN 1 ELSE 0)
    + (IF /\ Arg.severity \in {"critical", "high"}
          /\ Val(Arg.affectedAssets) # <<>>
       THEN 1 ELSE 0)

\* C13: the confidence rating of a returned Risk Calculation is 'high' when
\* the confidence score is at least 5, else 'medium' when it is at least 3,
\* else 'low'.
C13_ConfidenceRating ==
    Returned =>
        outcome.confidenceLevel =
            (IF C13_Score >= 5 THEN "high"
             ELSE IF C13_Score >= 3 THEN "medium" ELSE "low")

\* CVSS 9.8 with a CVE, a specific industry and affected assets: 'high'
C13_Witness ==
    /\ Returned
    /\ Arg.cvssScore = Some(98)
    /\ Arg.cve = Some("CVE-2019-0708")
    /\ clientContext.industry = "healthcare"
    /\ Arg.affectedAssets = Some(<<"srv1">>)
    /\ Arg.severity = "critical"
    /\ outcome.confidenceLevel = "high"

\* the dataset has an entry for the industry
HasEntry(industry) ==
    \E k \in 1..Len(breachCostsData) : breachCostsData[k].industry = industry

\* the cost per record of the first dataset entry for the industry
EntryCost(industry) ==
    breachCostsData[CHOOSE k \in 1..Len(breachCostsData) :
                        /\ breachCostsData[k].industry = industry
                        /\ \A j \in 1..(k - 1) :
                               breachCostsData[j].industry # industry].costPerRecord

\* C14: getCostPerRecord gives the dataset entry of the industry when there is
\* one, else the 'other' entry when there is one, else 180; a returned Risk
\* Calculation carries that figure as industryBreachCost.
C14_CostPerRecordFallback ==
    LET industry == clientContext.industry
        expected == IF HasEntry(industry) THEN EntryCost(industry)
                    ELSE IF HasEntry("other") THEN EntryCost("other")
                    ELSE 180
    IN  /\ getCostPerRecord(industry) = expected
        /\ Returned => outcome.calculation.industryBreachCost = expected

\* retail is not in the dataset, 'other' is: the 'other' figure was used
C14_Witness ==
    /\ Returned
    /\ clientContext.industry = "retail"
    /\ ~HasEntry("retail")
    /\ HasEntry("other")
    /\ outcome.calculation.industryBreachCost = EntryCost("other")
    /\ outcome.calculation.industryBreachCost # 180

\* C18: healthcare, 50 employees, 408 per record, 2000 records per employee
\* and CVSS 9.8 give assetValue 40,800,000, exposure factor 1.00, ARO 0.40,
\* SLE 40,800,000 and ALE 16,320,000 (1,632,000,000 cents).
C18_WorkedExample ==
    (/\ pc = "done"
     /\ clientContext.industry = "healthcare"
     /\ clientContext.employeeCount = 50
     /\ Arg.cvssScore = Some(98)
     /\ ~ConfidenceThrows(Arg))
    => /\ outcome.kind = "risk"
       /\ outcome.calculation.industryBreachCost = 408
       /\ outcome.calculation.assetValue = 40800000
       /\ outcome.calculation.exposureFactor = 100
       /\ outcome.annualRateOccurrence = 40
       /\ outcome.calculation.breachProbability = 40
       /\ outcome.singleLossExpectancy = 40800000
       /\ outcome.annualizedLossExpectancy = 1632000000

\* the call of the worked example has returned
C18_Witness ==
    /\ Returned
    /\ clientContext.industry = "healthcare"
    /\ clientContext.employeeCount = 50
    /\ Arg.cvssScore = Some(98)
    /\ outcome.annualizedLossExpectancy = 1632000000


(***************************************************************************)
(* The coefficient lookups of config.ts called on their own (specification *)
(* SpecLookup): any score, and any string as the industry.                 *)
(***************************************************************************)
\* the nine industry tags, strings that name no industry, and strings that
\* name a property of Object.prototype
LookupIndustries ==
    IndustryType \cup {"agriculture", "", "Healthcare"}
        \cup {"constructor", "toString", "__proto__"}

InitLookup ==
    /\ breachCostsData \in BreachCostDatasets
    /\ vulnerabilities \in
           {Some(<<v>>) : v \in {a \in AleVulnerabilities :
                                    /\ IsSome(a.cvssScore)
                                    /\ a.severity = "high"
                                    /\ a.affectedAssets = Some(<<"srv1">>)
                                    /\ a.cve = None}}
    /\ clientContext \in Contexts(LookupIndustries, {1})
    /\ pc = "lookup"
    /\ idx = 1
    /\ individualRisks = <<>>
    /\ errors = <<>>
    /\ outcome = NoOutcome
    /\ LimiterIdle

Looked(function, result) ==
    /\ pc = "lookup"
    /\ outcome' = [kind |-> "lookup", function |-> function, result |-> result]
    /\ pc' = "done"
    /\ UNCHANGED serverVars
    /\ UNCHANGED <<breachCostsData, vulnerabilities, clientContext, idx,
                   individualRisks, errors>>

CallGetExposureFactor ==
    Looked("getExposureFactor",
           Number(getExposureFactor(Val(Val(vulnerabilities)[1].cvssScore))))

CallGetARO ==
    Looked("getARO", Number(getARO(Val(Val(vulnerabilities)[1].cvssScore))))

CallGetRecordsMultiplier ==
    Looked("getRecordsMultiplier", getRecordsMultiplier(clientContext.industry))

NextLookup == CallGetExposureFactor \/ CallGetARO \/ CallGetRecordsMultiplier

SpecLookup == InitLookup /\ [][NextLookup]_vars

\* C15: every lookup returns a number: getExposureFactor and getARO one of
\* the four band values, getRecordsMultiplier the table entry of a recognized
\* industry and the 'other' entry, 800, for every other string.
C15_LookupsTotal ==
    (pc = "done" /\ outcome.kind = "lookup") =>
        /\ outcome.result.type = "number"
        /\ outcome.function = "getExposureFactor" =>
               outcome.result.value \in {100, 75, 40, 15}
        /\ outcome.function = "getARO" =>
               outcome.result.value \in {40, 25, 10, 3}
        /\ outcome.function = "getRecordsMultiplier" =>
               outcome.result.value =
                   (IF clientContext.industry \in IndustryType
                    THEN RECORDS_PER_EMPLOYEE[clientContext.industry]
                    ELSE 800)


\* C16: on partial success the value handed to the caller carries both the
\* successful Risk Calculations and the discarded-item failures (vulnerability
\* id and reason) collected during the run.
C16_PartialSuccessExposesFailures ==
    (ReturnedProfile /\ Len(errors) > 0) =>
        /\ "individualRisks" \in DOMAIN outcome
        /\ outcome.individualRisks = individualRisks
        /\ \E field \in DOMAIN outcome \ {"kind", "clientId", "calculationDate",
                                           "individualRisks", "totalALE",
                                           "riskByCategory", "topRisks"} :
               outcome[field] = errors


(***************************************************************************)
(* The rate-limited route handlers (specification SpecRL): requests of     *)
(* several clients to /api/generate-proposal and /api/session, the clock,  *)
(* and the periodic cleanup of the store.                                  *)
(***************************************************************************)
RECURSIVE SumLog(_, _, _, _, _)
SumLog(log, ip, route, ts, field) ==
    IF ts = {} THEN 0
    ELSE LET t == CHOOSE x \in ts : TRUE
         IN  Logged(log, <<ip, route, t>>)[field]
                 + SumLog(log, ip, route, ts \ {t}, field)

RECURSIVE SumMade(_, _)
SumMade(log, keys) ==
    IF keys = {} THEN 0
    ELSE LET k == CHOOSE x \in keys : TRUE
         IN  log[k].made + SumMade(log, keys \ {k})

\* the cleanup timer first fires one tick after the first window has expired
FirstCleanup == RATE_LIMITS.API_DEFAULT.windowMs + TickMs

\* Map.set and Map.delete on a store held as a function of its keys
MapSet(store, key, value) ==
    [k \in DOMAIN store \cup {key} |-> IF k = key THEN value ELSE store[k]]
MapDelete(store, key) == [k \in DOMAIN store \ {key} |-> store[k]]

\* getClientIP and checkRateLimit at the head of a rate-limited handler: the
\* limiter's store, its result, and the log of calls they leave
Served(ip, route, config) ==
    LET checked == checkRateLimit(rateLimitStore, clock, ip, config)
        key == <<ip, route, clock>>
    IN  [store |-> checked.store,
         result |-> checked.result,
         log |->
             MapSet(requestLog, key,
                 [made |-> Logged(requestLog, key).made + 1,
                  allowed |-> Logged(requestLog, key).allowed
                      + (IF checked.result.allowed THEN 1 ELSE 0)])]

\* the 429 response of a handler whose request the limiter did not allow
Rejected(ip, route, method, request, result) ==
    [kind |-> "rejected", status |-> 429, ip |-> ip, route |-> route,
     method |-> method, request |-> request, rateLimitResult |-> result,
     trace |-> <<"checkRateLimit">>]

\* the response of a handler that went on to its work; trace lists the steps
\* the handler took, in order
Proceeded(ip, route, method, request, result, status, body, trace) ==
    [kind |-> "proceeded", status |-> status, ip |-> ip, route |-> route,
     method |-> method, request |-> request, rateLimitResult |-> result,
     body |-> body, trace |-> trace]

\* another rate-limited request can be served in this behaviour
Serving ==
    /\ pc = "serving"
    /\ SumMade(requestLog, DOMAIN requestLog) < workload.maxCalls

(***************************************************************************)
(* app/api/session/route.ts                                                *)
(***************************************************************************)
SESSION_TTL == 60 * 60 * 1000

SessionRandoms == {"k3v9x", "p0q7m"}

\* `sess_${timestamp}_${random}${random2}`
generateSessionId(timestamp, random) ==
    "sess_" \o ToString(timestamp) \o "_" \o random

\* POST after the limiter: status, body, steps and the session store left
PostSessionWork(body, random) ==
    IF ~TruthyString(body.data)
    THEN [status |-> 400, body |-> [error |-> "No data provided"],
          trace |-> <<"request.json">>, sessions |-> sessionStore]
    ELSE LET sessionId == IF TruthyString(body.key) THEN Val(body.key)
                          ELSE generateSessionId(clock, random)
             expiresAt == clock + SESSION_TTL
         IN  [status |-> 200,
              body |-> [sessionId |-> sessionId, expiresAt |-> expiresAt],
              trace |-> <<"request.json", "sessionStore.set">>,
              sessions |-> MapSet(sessionStore, sessionId,
                                  [data |-> Val(body.data),
                                   expiresAt |-> expiresAt])]

PostSession ==
    /\ Serving
    /\ \E ip \in workload.clients, body \in workload.sessionPosts,
          random \in workload.randoms :
           LET served == Served(ip, "/api/session", RATE_LIMITS.API_DEFAULT)
               work == PostSessionWork(body, random)
           IN  /\ rateLimitStore' = served.store
               /\ requestLog' = served.log
               /\ IF served.result.allowed
                  THEN /\ sessionStore' = work.sessions
                       /\ sessionLog' =
                              IF work.status = 200
                              THEN MapSet(sessionLog, work.body.sessionId,
                                          [data |-> Val(body.data),
                                           storedAt |-> clock,
                                           readAt |-> clock])
                              ELSE sessionLog
                       /\ response' =
                              Proceeded(ip, "/api/session", "POST", body,
                                        Some(served.result), work.status,
                                        work.body,
                                        <<"checkRateLimit">> \o work.trace)
                  ELSE /\ UNCHANGED <<sessionStore, sessionLog>>
                       /\ response' = Rejected(ip, "/api/session", "POST",
                                               body, Some(served.result))
    /\ UNCHANGED <<clock, nextCleanup, workload, retry>>
    /\ UNCHANGED riskVars

\* the session ids clients ask for: the ones of the workload and the ones
\* the server handed out
RequestedIds ==
    workload.sessionIds \cup {Some(id) : id \in DOMAIN sessionStore}

\* GET without the expiry test: a stored session is returned whatever the time
GetSessionWork_NoExpiryCheck(sessionId) ==
    IF ~TruthyString(sessionId)
    THEN [status |-> 400, body |-> [error |-> "No session ID provided"],
          trace |-> <<>>, sessions |-> sessionStore]
    ELSE IF Val(sessionId) \notin DOMAIN sessionStore
    THEN [status |-> 404, body |-> [error |-> "Session not found or expired"],
          trace |-> <<"sessionStore.get">>, sessions |-> sessionStore]
    ELSE [status |-> 200,
          body |-> [data |-> sessionStore[Val(sessionId)].data,
                    expiresAt |-> sessionStore[Val(sessionId)].expiresAt],
          trace |-> <<"sessionStore.get">>, sessions |-> sessionStore]

\* GET after the limiter
GetSessionWork(sessionId) ==
    IF ~TruthyString(sessionId)
    THEN [status |-> 400, body |-> [error |-> "No session ID provided"],
          trace |-> <<>>, sessions |-> sessionStore]
    ELSE IF Val(sessionId) \notin DOMAIN sessionStore
    THEN [status |-> 404, body |-> [error |-> "Session not found or expired"],
          trace |-> <<"sessionStore.get">>, sessions |-> sessionStore]
    ELSE IF clock > sessionStore[Val(sessionId)].expiresAt
    THEN [status |-> 404, body |-> [error |-> "Session expired"],
          trace |-> <<"sessionStore.get", "sessionStore.delete">>,
          sessions |-> MapDelete(sessionStore, Val(sessionId))]
    ELSE [status |-> 200,
          body |-> [data |-> sessionStore[Val(sessionId)].data,
                    expiresAt |-> sessionStore[Val(sessionId)].expiresAt],
          trace |-> <<"sessionStore.get">>, sessions |-> sessionStore]

GetSession ==
    /\ Serving
    /\ \E ip \in workload.clients, sessionId \in RequestedIds :
           LET served == Served(ip, "/api/session", RATE_LIMITS.API_DEFAULT)
               work == GetSessionWork(sessionId)
           IN  /\ rateLimitStore' = served.store
               /\ requestLog' = served.log
               /\ IF served.result.allowed
                  THEN /\ sessionStore' = work.sessions
                       /\ sessionLog' =
                              IF work.status = 200
                              THEN [sessionLog EXCEPT
                                       ![Val(sessionId)].readAt = clock]
                              ELSE sessionLog
                       /\ response' =
                              Proceeded(ip, "/api/session", "GET", sessionId,
                                        Some(served.result), work.status,
                                        work.body,
                                        <<"checkRateLimit">> \o work.trace)
                  ELSE /\ UNCHANGED <<sessionStore, sessionLog>>
                       /\ response' = Rejected(ip, "/api/session", "GET",
                                               sessionId, Some(served.result))
    /\ UNCHANGED <<clock, nextCleanup, workload, retry>>
    /\ UNCHANGED riskVars

\* DELETE: no limiter, no client address
DeleteSession ==
    /\ pc = "serving"
    /\ \E sessionId \in RequestedIds :
           IF ~TruthyString(sessionId)
           THEN /\ UNCHANGED <<sessionStore, sessionLog>>
                /\ response' =
                       Proceeded(None, "/api/session", "DELETE", sessionId,
                                 None, 400,
                                 [error |-> "No session ID provided"], <<>>)
           ELSE /\ sessionStore' = MapDelete(sessionStore, Val(sessionId))
                /\ sessionLog' = MapDelete(sessionLog, Val(sessionId))
                /\ response' =
                       Proceeded(None, "/api/session", "DELETE", sessionId,
                                 None, 200, [success |-> TRUE],
                                 <<"sessionStore.delete">>)
    /\ UNCHANGED <<rateLimitStore, clock, nextCleanup, requestLog, workload,
                   retry>>
    /\ UNCHANGED riskVars

\* the setInterval callback of session/route.ts: every expired session is
\* deleted.  The timer's period (5 minutes) is shorter than any step of the
\* clock taken while sessions are stored, so it can fire at every clock value.
CleanupSessions ==
    /\ pc = "serving"
    /\ \E id \in DOMAIN sessionStore : clock > sessionStore[id].expiresAt
    /\ sessionStore' =
           [id \in {i \in DOMAIN sessionStore :
                       ~(clock > sessionStore[i].expiresAt)} |->
               sessionStore[id]]
    /\ UNCHANGED <<rateLimitStore, clock, nextCleanup, response, requestLog,
                   sessionLog, workload, retry>>
    /\ UNCHANGED riskVars

(***************************************************************************)
(* app/api/sample-data/route.ts                                            *)
(***************************************************************************)
GetSampleData ==
    /\ pc = "serving"
    /\ response' = Proceeded(None, "/api/sample-data", "GET", None, None,
                             200, [data |-> "sampleScan.json"], <<>>)
    /\ UNCHANGED <<rateLimitStore, clock, nextCleanup, requestLog,
                   sessionStore, sessionLog, workload, retry>>
    /\ UNCHANGED riskVars


(***************************************************************************)
(* app/api/generate-proposal/route.ts                                      *)
(***************************************************************************)
\* a request body: unparsable, or the three fields, each absent, present but
\* rejected by its schema, or present and accepted
FieldStates == {"absent", "invalid", "valid"}
Malformed == [syntaxError |-> TRUE]
ProposalBodies ==
    {Malformed} \cup
    [riskProfile : FieldStates, clientContext : FieldStates,
     vulnerabilities : FieldStates]

\* what the three prose generators do when called: return or throw
GenerationOutcomes ==
    [generateExecutiveSummary : {"returns", "throws"},
     generateFindingDescription : {"returns", "throws"},
     generateInvestmentJustification : {"returns", "throws"}]

AllReturn ==
    [generateExecutiveSummary |-> "returns",
     generateFindingDescription |-> "returns",
     generateInvestmentJustification |-> "returns"]

ServerError(trace) ==
    [status |-> 500,
     body |-> [error |-> "Failed to generate proposal. Please try again or contact support if the issue persists."],
     trace |-> trace]

BadRequest(error, trace) ==
    [status |-> 400, body |-> [error |-> error], trace |-> trace]

\* POST after the limiter: status, body and the steps taken
PostGenerateProposalWork(body, generation) ==
    IF body = Malformed
    THEN ServerError(<<"request.json">>)
    ELSE IF "absent" \in {body.riskProfile, body.clientContext,
                          body.vulnerabilities}
    THEN BadRequest("Missing required data", <<"request.json", "presence">>)
    ELSE IF body.riskProfile # "valid"
    THEN BadRequest("Invalid risk profile data",
                    <<"request.json", "presence", "safeValidateRiskProfile">>)
    ELSE IF body.clientContext # "valid"
    THEN BadRequest("Invalid client context data",
                    <<"request.json", "presence", "safeValidateRiskProfile",
                      "safeValidateClientContext">>)
    ELSE IF body.vulnerabilities # "valid"
    THEN BadRequest("Invalid vulnerabilities data",
                    <<"request.json", "presence", "safeValidateRiskProfile",
                      "safeValidateClientContext",
                      "safeValidateVulnerabilities">>)
    ELSE LET validated == <<"request.json", "presence",
                            "safeValidateRiskProfile",
                            "safeValidateClientContext",
                            "safeValidateVulnerabilities">>
             summarised == validated \o <<"generateExecutiveSummary">>
             described == summarised \o <<"generateFindingDescription">>
             justified == described \o <<"generateInvestmentJustification">>
         IN  IF generation.generateExecutiveSummary = "throws"
             THEN ServerError(summarised)
             ELSE IF generation.generateFindingDescription = "throws"
             THEN ServerError(described)
             ELSE IF generation.generateInvestmentJustification = "throws"
             THEN ServerError(justified)
             ELSE [status |-> 200,
                   body |-> [executiveSummary |-> "prose",
                             riskOverview |-> "prose",
                             findings |-> "prose",
                             investmentJustification |-> "prose"],
                   trace |-> justified]

\* the generators' outcomes matter only for a body they are called with
GenerationsFor(body) ==
    IF body # Malformed /\ body.riskProfile = "valid"
       /\ body.clientContext = "valid" /\ body.vulnerabilities = "valid"
    THEN workload.generations
    ELSE {AllReturn}

PostGenerateProposal ==
    /\ Serving
    /\ \E ip \in workload.clients, body \in workload.proposals :
       \E generation \in GenerationsFor(body) :
           LET served == Served(ip, "/api/generate-proposal",
                                RATE_LIMITS.PROPOSAL_GENERATION)
               work == PostGenerateProposalWork(body, generation)
           IN  /\ rateLimitStore' = served.store
               /\ requestLog' = served.log
               /\ response' =
                      IF served.result.allowed
                      THEN Proceeded(ip, "/api/generate-proposal", "POST",
                                     body, Some(served.result), work.status,
                                     work.body,
                                     <<"checkRateLimit">> \o work.trace)
                      ELSE Rejected(ip, "/api/generate-proposal", "POST",
                                    body, Some(served.result))
    /\ UNCHANGED <<clock, nextCleanup, sessionStore, sessionLog, workload,
                   retry>>
    /\ UNCHANGED riskVars

(***************************************************************************)
(* Time, and the limiter's periodic cleanup.                               *)
(***************************************************************************)
\* time passes
Tick ==
    /\ pc = "serving"
    /\ clock + workload.tickMs <= MaxTicks * workload.tickMs
    /\ clock' = clock + workload.tickMs
    /\ UNCHANGED <<rateLimitStore, nextCleanup, response, requestLog,
                   sessionStore, sessionLog, workload, retry>>
    /\ UNCHANGED riskVars

\* the setInterval callback of rateLimit.ts: every expired entry is deleted
Cleanup ==
    /\ pc = "serving"
    /\ clock >= nextCleanup
    /\ rateLimitStore' =
           [ip \in ClientIPs |->
               IF IsSome(rateLimitStore[ip])
                  /\ clock > Val(rateLimitStore[ip]).resetTime
               THEN None ELSE rateLimitStore[ip]]
    /\ nextCleanup' = nextCleanup + CLEANUP_INTERVAL
    /\ UNCHANGED <<clock, response, requestLog, sessionStore, sessionLog,
                   workload, retry>>
    /\ UNCHANGED riskVars

(***************************************************************************)
(* The rate limiter under load (specification SpecRL): two clients send    *)
(* requests to every route; the requests carry no data, so that the        *)
(* handlers answer without storing anything.                               *)
(***************************************************************************)
\* the server has just started
ServerStarted ==
    /\ breachCostsData = <<>>
    /\ vulnerabilities = None
    /\ clientContext = None
    /\ pc = "serving"
    /\ idx = 1
    /\ individualRisks = <<>>
    /\ errors = <<>>
    /\ outcome = NoOutcome
    /\ rateLimitStore = [ip \in ClientIPs |-> None]
    /\ clock = 0
    /\ response = NoResponse
    /\ requestLog = EmptyLog
    /\ sessionStore = <<>>
    /\ sessionLog = <<>>
    /\ retry = NoRetry

InitRL ==
    /\ ServerStarted
    /\ nextCleanup = FirstCleanup
    /\ workload =
           [clients |-> ClientIPs, maxCalls |-> MaxCalls, tickMs |-> TickMs,
            sessionPosts |-> {[data |-> None, key |-> None]},
            randoms |-> {"k3v9x"},
            sessionIds |-> {None},
            proposals |-> {[riskProfile |-> "absent",
                            clientContext |-> "absent",
                            vulnerabilities |-> "absent"]},
            generations |-> {AllReturn}]

NextRL == PostGenerateProposal \/ PostSession \/ GetSession \/ Tick \/ Cleanup

SpecRL == InitRL /\ [][NextRL]_vars


(***************************************************************************)
(* Properties of the rate limiter (specification SpecRL).                  *)
(***************************************************************************)
\* the documented limit of a route, requests per minute
DocumentedLimit(route) ==
    IF route = "/api/generate-proposal" THEN 3 ELSE 30

WINDOW_MS == 60 * 1000

\* the times that fall into the window of a stored entry
WindowOf(entry) ==
    {t \in Times : entry.resetTime - WINDOW_MS <= t /\ t <= entry.resetTime}

\* the step serves one more request of ip to route
Serves(ip, route) ==
    Logged(requestLog', <<ip, route, clock>>).made
        = Logged(requestLog, <<ip, route, clock>>).made + 1

C19_AtMostMaxPerWindow ==
    \A ip \in ClientIPs, route \in Routes :
        IsSome(rateLimitStore[ip]) =>
            SumLog(requestLog, ip, route, WindowOf(Val(rateLimitStore[ip])),
                   "allowed") <= DocumentedLimit(route)

C19_DeniedAtLimit ==
    \A ip \in ClientIPs, route \in Routes :
        (/\ IsSome(rateLimitStore[ip])
         /\ clock <= Val(rateLimitStore[ip]).resetTime
         /\ SumLog(requestLog, ip, route, WindowOf(Val(rateLimitStore[ip])),
                   "allowed") >= DocumentedLimit(route)
         /\ Serves(ip, route))
        => /\ response'.kind = "rejected"
           /\ response'.status = 429
           /\ Val(response'.rateLimitResult).remaining = 0
           /\ rateLimitStore' = rateLimitStore

\* C19: a client is allowed at most maxRequests requests to a route within
\* one window (3 for proposal generation); once that many were allowed, every
\* further request in the window is answered 429 with remaining 0 and leaves
\* the stored count as it was.
C19_RateLimit == [](C19_AtMostMaxPerWindow) /\ [][C19_DeniedAtLimit]_vars

\* a client that sent only proposal requests: three allowed, the next rejected
C19_Witness ==
    /\ response.kind = "rejected"
    /\ response.route = "/api/generate-proposal"
    /\ IsSome(rateLimitStore[response.ip])
    /\ Val(rateLimitStore[response.ip]).count = 3
    /\ SumLog(requestLog, response.ip, "/api/generate-proposal", Times,
              "allowed") = 3
    /\ SumLog(requestLog, response.ip, "/api/generate-proposal", Times,
              "made") = 4
    /\ SumLog(requestLog, response.ip, "/api/session", Times, "made") = 0

\* C20: the limits of the routes are independent: a client that made fewer
\* requests to a route in the last minute than the route's limit has its next
\* request to that route allowed, whatever it sent to the other route.
C20_IndependentLimits ==
    [][\A ip \in ClientIPs, route \in Routes :
          (/\ Serves(ip, route)
           /\ SumLog(requestLog, ip, route,
                     {t \in Times : t >= clock - WINDOW_MS}, "made")
                  < DocumentedLimit(route))
          => response'.kind = "proceeded"]_vars


(***************************************************************************)
(* The session store in use (specification SpecSession): one client stores *)
(* scan data, reads it back and deletes it while the hours pass; requests  *)
(* to the other routes go on beside it.                                    *)
(***************************************************************************)
\* the clock is read every half session lifetime
SessionTickMs == SESSION_TTL \div 2

InitSession ==
    /\ ServerStarted
    /\ nextCleanup = CLEANUP_INTERVAL
    /\ workload =
           [clients |-> {"203.0.113.7"}, maxCalls |-> MaxCalls - 1,
            tickMs |-> SessionTickMs,
            sessionPosts |-> [data : {None, Some("scanA"), Some("scanB")},
                              key : {None, Some("k1")}],
            randoms |-> {"k3v9x"},
            sessionIds |-> {None, Some("k1")},
            proposals |-> {[riskProfile |-> "absent",
                            clientContext |-> "absent",
                            vulnerabilities |-> "absent"]},
            generations |-> {AllReturn}]

NextSession ==
    \/ PostSession
    \/ GetSession
    \/ DeleteSession
    \/ CleanupSessions
    \/ GetSampleData
    \/ Tick

SpecSession == InitSession /\ [][NextSession]_vars

\* C21: every handler of every route consults checkRateLimit before it does
\* anything else.
C21_EveryHandlerRateLimited ==
    response.kind # "none" =>
        /\ Len(response.trace) > 0
        /\ response.trace[1] = "checkRateLimit"

\* the step is a GET /api/session that passed the limiter and names a session
GetsSession ==
    /\ requestLog' # requestLog
    /\ response'.kind = "proceeded"
    /\ response'.route = "/api/session"
    /\ response'.method = "GET"
    /\ TruthyString(response'.request)

\* the session was stored, not deleted since, and `since` is at most an hour ago
LiveSince(id, since) ==
    /\ id \in DOMAIN sessionLog
    /\ clock <= sessionLog[id][since] + 60 * 60 * 1000

\* C22: a GET for a session id returns the data last stored under the id if
\* and only if the session exists and the time is not past store time + 1
\* hour; otherwise it answers 404 without the data and the entry is gone
\* from the store, whether or not the periodic cleanup has run.
C22_SessionStore ==
    [][GetsSession =>
          LET id == Val(response'.request)
          IN  IF LiveSince(id, "storedAt")
              THEN /\ response'.status = 200
                   /\ response'.body.data = sessionLog[id].data
                   /\ response'.body.expiresAt
                          = sessionLog[id].storedAt + 60 * 60 * 1000
              ELSE /\ response'.status = 404
                   /\ "data" \notin DOMAIN response'.body
                   /\ id \notin DOMAIN sessionStore']_vars

\* a GET found the session expired and removed it itself
C22_Witness ==
    /\ response.kind = "proceeded"
    /\ response.method = "GET"
    /\ response.status = 404
    /\ response.trace = <<"checkRateLimit", "sessionStore.get",
                          "sessionStore.delete">>
    /\ Val(response.request) \in DOMAIN sessionLog
    /\ Val(response.request) \notin DOMAIN sessionStore

\* C23: a session stays retrievable for one hour after it was last read.
C23_ExpiryAfterInactivity ==
    [][(GetsSession /\ LiveSince(Val(response'.request), "readAt"))
          => response'.status = 200]_vars


(***************************************************************************)
(* Proposal generation (specification SpecProposal): one client posts      *)
(* every kind of body, and the prose generators return or throw.           *)
(***************************************************************************)
InitProposal ==
    /\ ServerStarted
    /\ nextCleanup = FirstCleanup
    /\ workload =
           [clients |-> {"203.0.113.7"}, maxCalls |-> MaxCalls,
            tickMs |-> TickMs,
            sessionPosts |-> {}, randoms |-> {}, sessionIds |-> {},
            proposals |-> ProposalBodies,
            generations |-> GenerationOutcomes]

NextProposal == PostGenerateProposal \/ Tick \/ Cleanup

SpecProposal == InitProposal /\ [][NextProposal]_vars

\* the steps that come before prose generation
Checks ==
    <<"checkRateLimit", "request.json", "presence", "safeValidateRiskProfile",
      "safeValidateClientContext", "safeValidateVulnerabilities">>

Generators ==
    {"generateExecutiveSummary", "generateFindingDescription",
     "generateInvestmentJustification"}

Generated(trace) == \E i \in DOMAIN trace : trace[i] \in Generators

\* the body is present and passes all three validations
AllValid(body) ==
    /\ body # Malformed
    /\ body.riskProfile = "valid"
    /\ body.clientContext = "valid"
    /\ body.vulnerabilities = "valid"

\* C24: the rate-limit check comes first and a denied request is answered 429
\* with nothing else done; prose generation is called only after the presence
\* check and the three validations succeeded; every other request is answered
\* 400 without a generation call.
C24_ChecksBeforeGeneration ==
    (response.kind # "none" /\ response.route = "/api/generate-proposal") =>
        /\ response.trace[1] = "checkRateLimit"
        /\ response.kind = "rejected" =>
               (response.status = 429 /\ response.trace = <<"checkRateLimit">>)
        /\ Generated(response.trace) =>
               /\ AllValid(response.request)
               /\ Len(response.trace) > Len(Checks)
               /\ SubSeq(response.trace, 1, Len(Checks)) = Checks
        /\ (response.kind = "proceeded" /\ ~AllValid(response.request)) =>
               (response.status = 400 /\ ~Generated(response.trace))



(***************************************************************************)
(* Waiting out a window (specification SpecWait): one client posts         *)
(* proposal requests, more of them than one window allows, while time      *)
(* passes beyond the window's end.                                         *)
(***************************************************************************)
InitWait ==
    /\ ServerStarted
    /\ nextCleanup = FirstCleanup
    /\ workload =
           [clients |-> {"203.0.113.7"}, maxCalls |-> MaxCalls + 1,
            tickMs |-> TickMs,
            sessionPosts |-> {}, randoms |-> {}, sessionIds |-> {},
            proposals |-> {[riskProfile |-> "absent",
                            clientContext |-> "absent",
                            vulnerabilities |-> "absent"]},
            generations |-> {AllReturn}]

NextWait == PostGenerateProposal \/ Tick \/ Cleanup

SpecWait == InitWait /\ [][NextWait]_vars

\* the step serves a request of ip to route while the limiter holds an entry
\* for ip
ServesKnown(ip, route) ==
    /\ Serves(ip, route)
    /\ IsSome(rateLimitStore[ip])

\* C25: the first request that arrives after the resetTime of the client's
\* entry is allowed, restarts the count at 1, sets the resetTime to now +
\* windowMs and reports remaining = maxRequests - 1; a request that arrives
\* before resetTime leaves the entry in its old window.
C25_AllowedAgainAfterReset ==
    [][\A ip \in ClientIPs, route \in Routes :
          ServesKnown(ip, route) =>
              LET entry == Val(rateLimitStore[ip])
              IN  /\ clock > entry.resetTime =>
                         /\ response'.kind = "proceeded"
                         /\ rateLimitStore'[ip] =
                                Some([count |-> 1,
                                      resetTime |-> clock + WINDOW_MS])
                         /\ Val(response'.rateLimitResult) =
                                [allowed |-> TRUE,
                                 remaining |-> DocumentedLimit(route) - 1,
                                 resetTime |-> clock + WINDOW_MS]
                  /\ clock < entry.resetTime =>
                         /\ Val(rateLimitStore'[ip]).resetTime = entry.resetTime
                         /\ Val(rateLimitStore'[ip]).count >= entry.count
                         /\ Val(response'.rateLimitResult).resetTime
                                = entry.resetTime]_vars

\* a client whose fourth request in a window was rejected has waited until
\* after the window's end and is served again, in a new window
C25_Witness ==
    /\ response.kind = "proceeded"
    /\ response.route = "/api/generate-proposal"
    /\ clock = WINDOW_MS + TickMs
    /\ rateLimitStore[response.ip] =
           Some([count |-> 1, resetTime |-> clock + WINDOW_MS])
    /\ Logged(requestLog, <<response.ip, response.route, 0>>)
           = [made |-> 4, allowed |-> 3]
    /\ Logged(requestLog, <<response.ip, response.route, clock>>)
           = [made |-> 1, allowed |-> 1]



(***************************************************************************)
(* lib/ai/claude.ts: withRetry (specifications SpecRetry, SpecRetryFair).  *)
(* One call of withRetry runs; every attempt of apiCall settles with a     *)
(* response or with an error.                                              *)
(***************************************************************************)
\* the maxRetries of the three callers, which pass none
DEFAULT_MAX_RETRIES == 3

\* how an attempt of apiCall can settle: a response; an Anthropic.APIError
\* with its status; an error of another class, with or without a status
ApiCallOutcomes ==
    {[ok |-> TRUE, api |-> FALSE, status |-> 200]}
    \cup {[ok |-> FALSE, api |-> TRUE, status |-> s] : s \in {400, 429, 500, 503}}
    \cup {[ok |-> FALSE, api |-> FALSE, status |-> s] : s \in {0, 429}}

\* isRetryable with every APIError retried
isRetryable_AnyAPIError(error) == error.api

isRetryable(error) ==
    IF error.api
    THEN error.status = 429 \/ error.status = 500 \/ error.status = 503
    ELSE FALSE

\* Math.pow(2, i) * 1000
Backoff(i) == (2 ^ i) * 1000

\* the other variables while a withRetry call runs
RetryFrame ==
    /\ UNCHANGED <<rateLimitStore, nextCleanup, response, requestLog,
                   sessionStore, sessionLog, workload>>
    /\ UNCHANGED riskVars

\* the loop head of withRetry: the next attempt starts while i < maxRetries
LoopHead(r, i) ==
    IF i < r.maxRetries
    THEN [r EXCEPT !.state = "calling", !.i = i]
    ELSE [r EXCEPT !.state = "threw", !.i = i,
                   !.thrown = Some([ok |-> FALSE, api |-> FALSE, status |-> 0,
                                    message |-> "Max retries exceeded"])]

\* apiCall settles: its response is returned; its error is rethrown when the
\* attempt was the last or the error is not retryable, and otherwise
\* withRetry goes to sleep
ApiCallSettles ==
    /\ pc = "retrying"
    /\ retry.state = "calling"
    /\ \E settled \in ApiCallOutcomes :
           LET r == [retry EXCEPT !.attempts = Append(@, settled)]
           IN  retry' =
                   IF settled.ok
                   THEN [r EXCEPT !.state = "returned",
                                  !.returned = Some(settled)]
                   ELSE IF retry.i = retry.maxRetries - 1 \/ ~isRetryable(settled)
                   THEN [r EXCEPT !.state = "threw", !.thrown = Some(settled)]
                   ELSE [r EXCEPT !.state = "sleeping",
                                  !.slept = Append(@, Backoff(retry.i))]
    /\ UNCHANGED clock
    /\ RetryFrame

\* the timer of sleep fires: i++ and back to the loop head
Wake ==
    /\ pc = "retrying"
    /\ retry.state = "sleeping"
    /\ clock' = clock + Backoff(retry.i)
    /\ retry' = LoopHead(retry, retry.i + 1)
    /\ RetryFrame

\* withRetry(apiCall, maxRetries) has been called and is at its loop head
InitRetry ==
    /\ breachCostsData = <<>>
    /\ vulnerabilities = None
    /\ clientContext = None
    /\ pc = "retrying"
    /\ idx = 1
    /\ individualRisks = <<>>
    /\ errors = <<>>
    /\ outcome = NoOutcome
    /\ rateLimitStore = [ip \in ClientIPs |-> None]
    /\ clock = 0
    /\ nextCleanup = FirstCleanup
    /\ response = NoResponse
    /\ requestLog = EmptyLog
    /\ sessionStore = <<>>
    /\ sessionLog = <<>>
    /\ workload = NoWorkload
    /\ \E maxRetries \in 1..DEFAULT_MAX_RETRIES :
           retry = LoopHead([state |-> "idle", maxRetries |-> maxRetries,
                             i |-> 0, attempts |-> <<>>, slept |-> <<>>,
                             returned |-> None, thrown |-> None], 0)

NextRetry == ApiCallSettles \/ Wake

SpecRetry == InitRetry /\ [][NextRetry]_vars

\* every attempt settles (the client library times a request out) and every
\* timer fires
SpecRetryFair == SpecRetry /\ WF_vars(ApiCallSettles) /\ WF_vars(Wake)

\* the error classes the claim calls retryable
RetryableStatus(error) == error.api /\ error.status \in {429, 500, 503}

Settled == retry.state \in {"returned", "threw"}

\* all attempts before the last one failed with a retryable error
EarlierRetryable ==
    \A k \in 1..(Len(retry.attempts) - 1) :
        ~retry.attempts[k].ok /\ RetryableStatus(retry.attempts[k])

C26_AtMostMaxRetries ==
    /\ Len(retry.attempts) <= retry.maxRetries
    /\ EarlierRetryable
    /\ Len(retry.slept) <= Len(retry.attempts)

C26_Outcome ==
    LET n == Len(retry.attempts)
    IN  /\ retry.state = "returned" =>
               /\ n >= 1 /\ retry.attempts[n].ok
               /\ retry.returned = Some(retry.attempts[n])
        /\ retry.state = "threw" =>
               /\ n >= 1 /\ ~retry.attempts[n].ok
               /\ retry.thrown = Some(retry.attempts[n])
               /\ ~RetryableStatus(retry.attempts[n]) \/ n = retry.maxRetries
        /\ retry.state = "sleeping" =>
               /\ n >= 1 /\ RetryableStatus(retry.attempts[n])
               /\ n < retry.maxRetries
        /\ retry.state = "calling" => Len(retry.slept) = n

\* C26: withRetry ends after at most maxRetries invocations of apiCall: it
\* returns the first successful attempt's result, goes on to another attempt
\* only after an APIError of status 429, 500 or 503, rethrows any other error
\* right after the attempt that raised it, and rethrows the last error when
\* maxRetries attempts have failed.
C26_WithRetry == [](C26_AtMostMaxRetries /\ C26_Outcome) /\ <>Settled

\* the default three attempts: two retryable failures, each slept on (1 s
\* and 2 s), then the third attempt fails as well and its error is rethrown
C26_Witness ==
    /\ retry.state = "threw"
    /\ retry.maxRetries = DEFAULT_MAX_RETRIES
    /\ Len(retry.attempts) = DEFAULT_MAX_RETRIES
    /\ retry.slept = <<1000, 2000>>
    /\ clock = 3000
    /\ RetryableStatus(retry.attempts[DEFAULT_MAX_RETRIES])
    /\ retry.thrown = Some(retry.attempts[DEFAULT_MAX_RETRIES])



(***************************************************************************)
(* Further properties of a calculateTotalRisk call.                        *)
(***************************************************************************)
\* C27: in every returned profile the four riskByCategory buckets sum to
\* totalALE, whatever the input list, lists with a repeated id included.
C27_BucketsSumToTotal ==
    ReturnedProfile =>
        outcome.riskByCategory["critical"] + outcome.riskByCategory["high"]
            + outcome.riskByCategory["medium"] + outcome.riskByCategory["low"]
        = outcome.totalALE


\* the positions of the inputs that can be calculated, and of those that
\* cannot, in input order
CalculablePositions ==
    SelectSeq([i \in 1..Len(Input) |-> i], LAMBDA i : Attempt(i).kind = "risk")
FailingPositions ==
    SelectSeq([i \in 1..Len(Input) |-> i], LAMBDA i : Attempt(i).kind # "risk")

C28_OnePerSuccess ==
    ReturnedProfile =>
        LET all == outcome.individualRisks
            calculable == CalculablePositions
            failing == FailingPositions
        IN  /\ Len(all) + Len(errors) = Len(Input)
            /\ Len(all) = Len(calculable)
            /\ \A k \in 1..Len(all) :
                   all[k].vulnerabilityId = Input[calculable[k]].id
            /\ Len(errors) = Len(failing)
            /\ \A k \in 1..Len(errors) :
                   errors[k].vulnerabilityId = Input[failing[k]].id
            /\ all = individualRisks

C28_InputUntouched ==
    /\ vulnerabilities' = vulnerabilities
    /\ pc = "loop" =>
           /\ Len(individualRisks') >= Len(individualRisks)
           /\ SubSeq(individualRisks', 1, Len(individualRisks)) = individualRisks

\* C28: individualRisks of a returned profile holds one Risk Calculation per
\* calculable input, in input order, so that its length plus the number of
\* recorded failures is the length of the input; the ranking for topRisks
\* works on a copy: individualRisks keeps its order and the input list is
\* left as it was.
C28_IndividualRisksInInputOrder ==
    [](C28_OnePerSuccess) /\ [][C28_InputUntouched]_vars

\* three inputs, the second failing, the third of higher ALE than the first:
\* the ranking puts the third first, individualRisks keeps the input order
C28_Witness ==
    /\ ReturnedProfile
    /\ Len(Input) = 3
    /\ Len(errors) = 1 /\ errors[1].vulnerabilityId = Input[2].id
    /\ Len(outcome.individualRisks) = 2
    /\ outcome.individualRisks[1].vulnerabilityId = Input[1].id
    /\ outcome.individualRisks[2].vulnerabilityId = Input[3].id
    /\ ALEOf(outcome.individualRisks[1]) < ALEOf(outcome.individualRisks[2])
    /\ outcome.topRisks = <<outcome.individualRisks[2], outcome.individualRisks[1]>>



(***************************************************************************)
(* Monotonicity of a calculateALE call in the score (specification         *)
(* SpecMono): the call is given every score, declared severity, industry   *)
(* and company size, and is compared with the calls at the scores below.   *)
(***************************************************************************)
MonoVulnerabilities ==
    Vulns({"v1"},
          {Some(s) : s \in (CVSS_THRESHOLDS.MIN - ScoreMargin)
                           ..(CVSS_THRESHOLDS.MAX + ScoreMargin)},
          {Some(<<"srv1">>)}, {Some("CVE-2019-0708")})

InitMono ==
    /\ breachCostsData \in BreachCostDatasets
    /\ vulnerabilities \in {Some(<<v>>) : v \in MonoVulnerabilities}
    /\ clientContext \in AleContexts
    /\ pc = "ale"
    /\ idx = 1
    /\ individualRisks = <<>>
    /\ errors = <<>>
    /\ outcome = NoOutcome
    /\ LimiterIdle

SpecMono == InitMono /\ [][NextALE]_vars

\* what calculateALE gives for the same vulnerability and context at score s
C29_At(s) == calculateALE([Arg EXCEPT !.cvssScore = Some(s)], clientContext)

\* the scores of the CVSS range
C29_InRange == CVSS_THRESHOLDS.MIN..CVSS_THRESHOLDS.MAX

C29_NoGreater(lower, upper) ==
    /\ lower.calculation.exposureFactor <= upper.calculation.exposureFactor
    /\ lower.annualRateOccurrence <= upper.annualRateOccurrence
    /\ lower.singleLossExpectancy <= upper.singleLossExpectancy
    /\ lower.annualizedLossExpectancy <= upper.annualizedLossExpectancy

\* C29: for a fixed vulnerability and client context, the exposure factor,
\* the ARO, the SLE and the ALE never decrease when the CVSS score grows:
\* for in-range scores s1 <= s2 on which calculateALE returns, each of the
\* four at s1 is at most its value at s2.
C29_MonotoneInScore ==
    (Returned /\ Val(Arg.cvssScore) \in C29_InRange) =>
        \A s1 \in CVSS_THRESHOLDS.MIN..Val(Arg.cvssScore) :
            LET lower == C29_At(s1)
            IN  lower.kind = "risk" => C29_NoGreater(lower, outcome)

\* the call at 9.0, the first critical score: at 8.9 all four are smaller,
\* and at 0.1, the lowest score calculateALE accepts, they are smaller still
C29_Witness ==
    /\ Returned
    /\ Arg.cvssScore = Some(CVSS_THRESHOLDS.CRITICAL)
    /\ C29_At(CVSS_THRESHOLDS.CRITICAL - 1).kind = "risk"
    /\ C29_At(CVSS_THRESHOLDS.CRITICAL - 1).annualizedLossExpectancy
           < outcome.annualizedLossExpectancy
    /\ C29_At(CVSS_THRESHOLDS.CRITICAL - 1).singleLossExpectancy
           < outcome.singleLossExpectancy
    /\ C29_At(1).kind = "risk"
    /\ C29_At(1).annualizedLossExpectancy
           < C29_At(CVSS_THRESHOLDS.CRITICAL - 1).annualizedLossExpectancy



(***************************************************************************)
(* The profile against the schema of the proposal endpoint (SpecTop).      *)
(* Fractions are held as percent and ALE in cents, so that "at most 1" is  *)
(* "at most 100" and ALE <= SLE is ALE <= 100 * SLE.                       *)
(***************************************************************************)
\* every vulnerability of the input passes VulnerabilitySchema
C30_ValidInput ==
    /\ ~NoInput
    /\ \A i \in 1..Len(Input) : VulnerabilitySchema(Input[i])

\* RiskCalculationSchema, and the ordering of ALE, SLE and the asset value
C30_RiskCalculationSchema(r) ==
    /\ r.vulnerabilityId # "" /\ r.vulnerabilityName # ""
    /\ r.calculation.exposureFactor \in 0..100
    /\ r.annualRateOccurrence \in 0..100
    /\ r.calculation.breachProbability \in 0..100
    /\ r.calculation.industryBreachCost > 0
    /\ r.calculation.assetValue >= 0
    /\ r.confidenceLevel \in {"high", "medium", "low"}
    /\ 0 <= r.annualizedLossExpectancy
    /\ r.annualizedLossExpectancy <= 100 * r.singleLossExpectancy
    /\ r.singleLossExpectancy <= r.calculation.assetValue

\* C30: a profile returned for schema-valid inputs passes the schema of the
\* proposal endpoint: in every Risk Calculation the exposure factor and the
\* ARO lie in [0, 1], industryBreachCost is positive and 0 <= ALE <= SLE <=
\* assetValue; totalALE and the four buckets are non-negative; topRisks has
\* at most five entries.
C30_ProfilePassesOutputSchema ==
    (ReturnedProfile /\ C30_ValidInput) =>
        /\ \A k \in 1..Len(outcome.individualRisks) :
               C30_RiskCalculationSchema(outcome.individualRisks[k])
        /\ \A k \in 1..Len(outcome.topRisks) :
               C30_RiskCalculationSchema(outcome.topRisks[k])
        /\ Len(outcome.clientId) >= 1
        /\ outcome.calculationDate # ""
        /\ outcome.totalALE >= 0
        /\ \A sev \in VulnerabilitySeverity : outcome.riskByCategory[sev] >= 0
        /\ Len(outcome.topRisks) <= 5

\* six schema-valid inputs of all three bands, all calculated: five ranked
C30_Witness ==
    /\ ReturnedProfile
    /\ C30_ValidInput
    /\ Len(Input) = 6
    /\ {Input[i].cvssScore : i \in 1..6} = {Some(35), Some(75), Some(95)}
    /\ Len(outcome.individualRisks) = 6
    /\ Len(outcome.topRisks) = 5
    /\ outcome.totalALE > 0

====
